---- MODULE Spec2Model ----
(***************************************************************************)
(* Model of the hearsay transcription lambdas.                             *)
(*                                                                         *)
(* One Lambda execution environment runs one invocation of the process     *)
(* handler at a time; the temp directory (TEMP_DIR) outlives an invocation *)
(* and is seen by the next one.  `ver' is the deployed handler:            *)
(*   "main"   = src/lambdas/02-main.js                                     *)
(*   "legacy" = src/lambda-02-process.js (lines 1-192)                     *)
(* Every external collaborator (HTTP, S3, ffmpeg, the transcription and    *)
(* completion services) is a nondeterministic choice over its outcomes.    *)
(* updateDatabase returns the supabase query builder, whose `then' turns   *)
(* transport errors into a result value: awaiting it never throws, so a    *)
(* call to it is recorded in `writes' and the handler goes on.             *)
(***************************************************************************)
EXTENDS Integers, Sequences, FiniteSets, TLC

\* ---------------------------------------------------------------- bounds
MaxJobs == 2
MaxSegs == 2
\* a limit on the transcription requests in flight, as a deployment would
\* configure it; the handlers read no such setting
ConcurrencyLimit == 1
\* the most transcript chunks one call of summarize is given
MaxChunks == 8

\* ------------------------------------------------------- program constants
SPLIT_FILE_SIZE_THRESHOLD == 24000000
MAX_FILE_SIZE == 200000000
SEGMENT_PREFIX == "segment-"
MAX_CHARS == 12000
MIN_CHARS_FOR_FIRST_CHUNK == 4000
MAX_CHUNKS_TO_USE == 6
\* "...".length and JOIN_STR.length
EllipsisLength == 3
JoinStrLength == 5
SUPPORTED_FILE_TYPES == {"audio/mpeg", "audio/mp3", "audio/x-m4a"}

Versions == {"main", "legacy"}

\* ------------------------------------------------------------ JS values
\* A JS number-or-undefined: t is "num", "nan" or "undef"; v is the number.
Num(n) == [t |-> "num", v |-> n]
NaN == [t |-> "nan", v |-> 0]
Undefined == [t |-> "undef", v |-> 0]

\* Number(headers["content-length"]): a missing header gives Number(undefined) = NaN
ToNumber(h) == IF h.t = "undef" THEN NaN ELSE h

\* x || undefined : 0 and NaN are falsy
OrUndefined(x) == IF x.t = "nan" \/ (x.t = "num" /\ x.v = 0) THEN Undefined ELSE x

\* x == null
IsNullish(x) == x.t = "undef"

\* x > n and x < n on JS numbers: every comparison with NaN is false
JsGt(x, n) == x.t = "num" /\ x.v > n
JsLt(x, n) == x.t = "num" /\ x.v < n

\* ------------------------------------------------------------ inputs
\* content-length headers a server may send (Undefined: header missing)
SizeHeaders ==
  {Undefined, Num(0), Num(5000000), Num(SPLIT_FILE_SIZE_THRESHOLD),
   Num(MAX_FILE_SIZE), Num(MAX_FILE_SIZE + 1)}

\* content-type headers a server may send ("undefined": header missing)
TypeHeaders == {"audio/mpeg", "audio/mp3", "text/html", "undefined"}

\* ------------------------------------------------------------ metadata
\* getFileMetadataMain without the `|| undefined'
getFileMetadataMainNoOr(ctype, clen) ==
  [contentType |-> ctype, contentLength |-> ToNumber(clen)]

\* getFileMetadata on a successful HEAD request
getFileMetadataMain(ctype, clen) ==
  [contentType |-> ctype, contentLength |-> OrUndefined(ToNumber(clen))]

getFileMetadataLegacy(ctype, clen) ==
  [contentType |-> ctype, contentLength |-> ToNumber(clen)]

\* getFileMetadata when axios.head throws: {}
NoMetadata == [contentType |-> "undefined", contentLength |-> Undefined]

\* the admission test of the handler: TRUE when the file is thrown out
SizeTooBig(contentLength) == JsGt(contentLength, MAX_FILE_SIZE)

InvalidFile(m) ==
  \/ m.contentType = "undefined"
  \/ IsNullish(m.contentLength)
  \/ m.contentType \notin SUPPORTED_FILE_TYPES
  \/ SizeTooBig(m.contentLength)

\* mime.getExtension for the supported types, then the mpga -> mp3 patch
MimeExtension(contentType) ==
  CASE contentType = "audio/mpeg" -> "mpga"
    [] contentType = "audio/mp3" -> "mp3"
    [] contentType = "audio/x-m4a" -> "m4a"
    [] OTHER -> "bin"

getExtension(contentType) ==
  IF MimeExtension(contentType) = "mpga" THEN "mp3" ELSE MimeExtension(contentType)

\* ------------------------------------------------------------ file names
\* `${uuidv4()}.${extension}`: the uuid of invocation j is modelled by j
\* (collision-resistant); a uuid never starts with SEGMENT_PREFIX.
AudioName(j, ext) == [base |-> "uuid", ord |-> j, ext |-> ext]

\* `${SEGMENT_PREFIX}%03d${ext}` with the ordinal k filled in by ffmpeg
SegmentName(k, ext) == [base |-> SEGMENT_PREFIX, ord |-> k, ext |-> ext]

startsWithPrefix(name) == name.base = SEGMENT_PREFIX

\* all orders in which a directory listing may return the set S of entries
Listings(S) ==
  {f \in [1..Cardinality(S) -> S] : \A i, k \in 1..Cardinality(S) : i # k => f[i] # f[k]}

\* the entries of dir as ffmpeg leaves them after writing segments 0..k-1 cut
\* from the audio of invocation j (-y: an existing file of that name is replaced)
SegmentsWritten(dir, j, k, ext) ==
  {e \in dir : ~(\E i \in 0..(k - 1) : e.name = SegmentName(i, ext))}
    \cup {[name |-> SegmentName(i, ext), data |-> [job |-> j, part |-> i, whole |-> FALSE]]
            : i \in 0..(k - 1)}

\* createWriteStream(filePath) followed by the piped bytes of invocation j
AudioWritten(dir, name, j) ==
  {e \in dir : e.name # name}
    \cup {[name |-> name, data |-> [job |-> j, part |-> 0, whole |-> TRUE]]}

\* fs.readdirSync(TEMP_DIR).filter((f) => f.startsWith(SEGMENT_PREFIX))
SegmentEntries(dir) == {e.name : e \in {d \in dir : startsWithPrefix(d.name)}}

\* fs.readFileSync(fileName)
ReadFile(dir, name) == (CHOOSE e \in dir : e.name = name).data

\* NeedsNoSplit with <= for <
NeedsNoSplitInclusive(fileSize) ==
  fileSize.t = "num" /\ fileSize.v <= SPLIT_FILE_SIZE_THRESHOLD

\* maybeSplitFile, first branch
NeedsNoSplit(fileSize) == JsLt(fileSize, SPLIT_FILE_SIZE_THRESHOLD)

\* ------------------------------------------------------------ state
VARIABLES
  ver,         \* the deployed process handler
  job,         \* number of the current invocation (0 before the first)
  pc,          \* where the current invocation is
  writes,      \* updateDatabase calls of the current invocation, in order
  response,    \* what the handler returned
  headers,     \* what the HEAD request of getFileMetadata was answered with
  meta,        \* { contentType, contentLength } of getFileMetadata
  tempDir,     \* entries of TEMP_DIR: [name, data]
  audioPath,   \* name of the downloaded file
  fetched,     \* outcome of saveUrlToLocalFile
  tool,        \* outcome of the ffmpeg child process
  files,       \* what maybeSplitFile returned
  chunks,      \* per position of files: the transcribe call's file and bytes
  inflight,    \* positions whose transcription request is pending
  arrival,     \* positions in the order their requests completed
  failedSeg,   \* position whose transcription failed (0: none)
  transcript,  \* what the handler got from await Promise.all
  failure,     \* the collaborator call of this invocation that failed
  completions, \* the two callGpt4 calls of summarize
  calls,       \* calls made to the collaborators in this invocation
  \* one call of summarize (02-main.js) on its own
  sResults,    \* length of results[i].results.text, per transcribed segment
  sPc,         \* where the call is
  sPrompt,     \* what formatTranscriptForPrompt returned
  sRequests,   \* callGpt4 requests posted
  sReturn,     \* what summarize returned
  \* the start handler (lambda-01-start.js)
  stJob,       \* number of the current invocation
  stPc,        \* where the current invocation is
  stEvent,     \* where the event carries dbId and audioUrl, and its body
  stHeaders,   \* what the HEAD request was answered with
  stInvokes,   \* the InvokeCommand calls of this invocation, by outcome
  stResponse   \* what the handler returned

sumVars == <<sResults, sPc, sPrompt, sRequests, sReturn>>

startVars == <<stJob, stPc, stEvent, stHeaders, stInvokes, stResponse>>

processVars ==
  <<ver, job, pc, writes, response, headers, meta, tempDir, audioPath, fetched,
    tool, files, chunks, inflight, arrival, failedSeg, transcript, failure,
    completions, calls>>

vars == <<processVars, sumVars, startVars>>

\* the answer to the HEAD request: ok is FALSE when axios.head threw
NoHeaders == [ok |-> FALSE, type |-> "undefined", length |-> Undefined]
NoName == [base |-> "none", ord |-> 0, ext |-> "none"]
NoResponse == [statusCode |-> 0, status |-> "none", error |-> "none"]
NoTool == [status |-> "none", code |-> 0, produced |-> 0]
NoCompletions == [title |-> "none", paragraph |-> "none"]
NoCalls == [head |-> 0, get |-> 0, put |-> 0, ffmpeg |-> 0, transcribe |-> 0, complete |-> 0]

\* the fields of one updateDatabase call ("none": the field is not in the update)
StatusWrite(status, reason, output, title, summary) ==
  [status |-> status, reason |-> reason, output |-> output,
   title |-> title, summary |-> summary, audioUrl |-> "none"]

RunningWrite == StatusWrite("RUNNING", "none", <<>>, "none", "none")
FailedWrite(reason) == StatusWrite("FAILED", reason, <<>>, "none", "none")
AudioUrlWrite ==
  [status |-> "none", reason |-> "none", output |-> <<>>,
   title |-> "none", summary |-> "none", audioUrl |-> "s3Url"]

\* makeResponse(200, ...) and errorResponse(message)
SuccessResponse == [statusCode |-> 200, status |-> "success", error |-> "none"]
errorResponse(message) == [statusCode |-> 500, status |-> "error", error |-> message]

\* no call of summarize on its own is under way
NoSummarizeCall ==
  /\ sResults = <<>>
  /\ sPc = "none"
  /\ sPrompt = <<>>
  /\ sRequests = 0
  /\ sReturn = NoCompletions

\* the start handler has not been invoked
NoStartInvocation ==
  /\ stJob = 0
  /\ stPc = "idle"
  /\ stEvent = [dbId |-> "none", audioUrl |-> "none", bodyParses |-> TRUE]
  /\ stHeaders = NoHeaders
  /\ stInvokes = <<>>
  /\ stResponse = NoResponse

\* the process handler has not been invoked
NoProcessInvocation ==
  /\ job = 0
  /\ pc = "idle"
  /\ writes = <<>>
  /\ response = NoResponse
  /\ headers = NoHeaders
  /\ meta = NoMetadata
  /\ tempDir = {}
  /\ audioPath = NoName
  /\ fetched = "none"
  /\ tool = NoTool
  /\ files = <<>>
  /\ chunks = <<>>
  /\ inflight = {}
  /\ arrival = <<>>
  /\ failedSeg = 0
  /\ transcript = <<>>
  /\ failure = "none"
  /\ completions = NoCompletions
  /\ calls = NoCalls

Init ==
  /\ NoSummarizeCall
  /\ NoStartInvocation
  /\ ver \in Versions
  /\ NoProcessInvocation

\* the catch block of the handler: one FAILED write, then the error response
Catch(reason) ==
  /\ writes' = Append(writes, FailedWrite(reason))
  /\ response' = errorResponse(reason)
  /\ pc' = "done"

\* The platform hands the environment its next event.  The handler runs up
\* to its first await: the parameter test, then the RUNNING write.
Invoke ==
  /\ UNCHANGED <<sumVars, startVars>>
  /\ pc \in {"idle", "done"}
  /\ job < MaxJobs
  /\ job' = job + 1
  /\ headers' = NoHeaders
  /\ meta' = NoMetadata
  /\ audioPath' = NoName
  /\ fetched' = "none"
  /\ tool' = NoTool
  /\ files' = <<>>
  /\ chunks' = <<>>
  /\ inflight' = {}
  /\ arrival' = <<>>
  /\ failedSeg' = 0
  /\ transcript' = <<>>
  /\ failure' = "none"
  /\ completions' = NoCompletions
  /\ calls' = NoCalls
  /\ \E hasAudioUrl, hasDbId \in BOOLEAN :
       IF ~hasAudioUrl \/ ~hasDbId
         THEN /\ writes' = <<>>
              /\ response' = errorResponse("missing params")
              /\ pc' = "done"
         ELSE /\ writes' = <<RunningWrite>>
              /\ response' = NoResponse
              /\ pc' = "metadata"
  /\ UNCHANGED <<ver, tempDir>>

\* getFileMetadata: {} when axios.head threw, else the two headers
getFileMetadata(v, h) ==
  IF ~h.ok THEN NoMetadata
  ELSE IF v = "main" THEN getFileMetadataMain(h.type, h.length)
  ELSE getFileMetadataLegacy(h.type, h.length)

\* answers to the HEAD request
HeadAnswers ==
  {NoHeaders} \cup {[ok |-> TRUE, type |-> t, length |-> h] : t \in TypeHeaders, h \in SizeHeaders}

\* getFileMetadata (axios.head) and the admission test
ValidateFile ==
  /\ UNCHANGED <<sumVars, startVars>>
  /\ pc = "metadata"
  /\ calls' = [calls EXCEPT !.head = @ + 1]
  /\ \E h \in HeadAnswers :
       /\ headers' = h
       /\ meta' = getFileMetadata(ver, h)
       /\ failure' = IF h.ok THEN "none" ELSE "metadata"
       /\ IF InvalidFile(meta')
            THEN /\ Catch("invalid file")
                 /\ UNCHANGED audioPath
            ELSE /\ audioPath' = AudioName(job, getExtension(meta'.contentType))
                 /\ pc' = "download"
                 /\ UNCHANGED <<writes, response>>
  /\ UNCHANGED <<ver, job, tempDir, fetched, tool, files, chunks, inflight,
                 arrival, failedSeg, transcript, completions>>

\* outcomes of the GET of the audio bytes:
\*   ok           the body arrived and was written
\*   empty        the body arrived and had no bytes
\*   requestError the request failed before a response (DNS, refused, 4xx/5xx)
\*   streamError  the response stream broke off after the headers
\*   writeError   the local write stream failed
FetchOutcomes == {"ok", "empty", "requestError", "streamError", "writeError"}

\* saveUrlToLocalFile of 02-main.js: TRUE when the returned promise settles.
\* axios rejects on requestError and stream.on("error") rejects on writeError;
\* an error of the piped response never ends the write stream, so neither
\* "finish" nor "error" fires.
SettlesMain(o) == o # "streamError"

\* saveUrlToLocalFile of lambda-02-process.js: the promise has no reject path
\* and resolves on "finish" only.
SettlesLegacy(o) == o \in {"ok", "empty"}

\* saveUrlToLocalFile, then (02-main.js) the statSync size test.  A promise
\* that never settles leaves the invocation at its await ("hung") until the
\* platform ends the environment.
SaveUrlToLocalFile ==
  /\ UNCHANGED <<sumVars, startVars>>
  /\ pc = "download"
  /\ calls' = [calls EXCEPT !.get = @ + 1]
  /\ \E o \in FetchOutcomes :
       /\ fetched' = o
       /\ failure' = IF o \in {"ok", "empty"} THEN "none" ELSE "download"
       /\ tempDir' = IF ver = "main" /\ o = "requestError"
                       THEN tempDir
                       ELSE AudioWritten(tempDir, audioPath, job)
       /\ IF ver = "main"
            THEN CASE ~SettlesMain(o) ->
                        /\ pc' = "hung"
                        /\ UNCHANGED <<writes, response>>
                   [] o = "requestError" -> Catch("Request failed")
                   [] o = "writeError" -> Catch("write failed")
                   [] o = "empty" -> Catch("empty file")
                   [] OTHER ->
                        /\ pc' = "upload"
                        /\ UNCHANGED <<writes, response>>
            ELSE /\ pc' = IF SettlesLegacy(o) THEN "upload" ELSE "hung"
                 /\ UNCHANGED <<writes, response>>
  /\ UNCHANGED <<ver, job, headers, meta, audioPath, tool, files, chunks, inflight,
                 arrival, failedSeg, transcript, completions>>

\* uploadLocalFileToS3, then the audioUrl write
UploadLocalFileToS3 ==
  /\ UNCHANGED <<sumVars, startVars>>
  /\ pc = "upload"
  /\ calls' = [calls EXCEPT !.put = @ + 1]
  /\ \E o \in {"ok", "not200", "rejected"} :
       CASE o = "ok" ->
              /\ writes' = Append(writes, AudioUrlWrite)
              /\ pc' = "split"
              /\ UNCHANGED <<response, failure>>
         [] o = "not200" ->
              /\ failure' = "upload"
              /\ Catch("error uploading to s3")
         [] OTHER ->
              /\ failure' = "upload"
              /\ Catch("s3 send failed")
  /\ UNCHANGED <<ver, job, headers, meta, tempDir, audioPath, fetched, tool, files,
                 chunks, inflight, arrival, failedSeg, transcript, completions>>

\* PromiseAll collecting the values as they arrive (results.push in each callback)
PromiseAllByArrival(cs, arr) == [i \in 1..Len(cs) |-> cs[arr[i]]]

\* What Promise.all resolves to: the value of promise i at position i,
\* whatever the order `arr' in which the promises were fulfilled.
PromiseAll(cs, arr) == [i \in 1..Len(cs) |-> cs[i]]

\* { fileName, results: response.data } of transcribe for one call
TranscribeResult(c) == [fileName |-> c.fileName, results |-> c.data]

\* files.map((filePath) => transcribe(filePath, contentType)): every call reads
\* its file and posts its request before the handler awaits Promise.all;
\* cs are the calls made so far
StartFanout(fs, dir, cs) ==
  /\ files' = fs
  /\ chunks' = [i \in 1..Len(fs) |-> [fileName |-> fs[i], data |-> ReadFile(dir, fs[i])]]
  /\ inflight' = 1..Len(fs)
  /\ calls' = [cs EXCEPT !.transcribe = @ + Len(fs)]
  /\ pc' = "fanout"

\* maybeSplitFile below the threshold: [filePath], no child process
SplitNotNeeded ==
  /\ UNCHANGED <<sumVars, startVars>>
  /\ pc = "split"
  /\ NeedsNoSplit(meta.contentLength)
  /\ StartFanout(<<audioPath>>, tempDir, calls)
  /\ UNCHANGED <<ver, job, writes, response, headers, meta, tempDir, audioPath,
                 fetched, tool, arrival, failedSeg, transcript, failure, completions>>

\* maybeSplitFile at or above the threshold when spawn fails: the "error"
\* event rejects the promise of ffmpeg
SplitSpawnError ==
  /\ UNCHANGED <<sumVars, startVars>>
  /\ pc = "split"
  /\ ~NeedsNoSplit(meta.contentLength)
  /\ calls' = [calls EXCEPT !.ffmpeg = @ + 1]
  /\ tool' = [status |-> "error", code |-> 0, produced |-> 0]
  /\ failure' = "segmentation"
  /\ Catch("spawn failed")
  /\ UNCHANGED <<ver, job, headers, meta, tempDir, audioPath, fetched, files, chunks,
                 inflight, arrival, failedSeg, transcript, completions>>

\* what maybeSplitFile returns for one listing of the segment entries:
\* .map((f) => `${TEMP_DIR}/${f}`), in the order of the listing
ListedFiles(listing) == listing

\* maybeSplitFile at or above the threshold when the child process closes
\* with exit code `code' after writing k segment files (.on("close", resolve)
\* does not look at the code), then the listing of TEMP_DIR, the length test
\* of the handler and the start of the fan-out
SplitClose ==
  /\ UNCHANGED <<sumVars, startVars>>
  /\ pc = "split"
  /\ ~NeedsNoSplit(meta.contentLength)
  /\ \E code \in {0, 1}, k \in 0..MaxSegs :
       LET dir == SegmentsWritten(tempDir, job, k, audioPath.ext)
           cs == [calls EXCEPT !.ffmpeg = @ + 1]
       IN
         /\ tool' = [status |-> "closed", code |-> code, produced |-> k]
         /\ tempDir' = dir
         /\ \E listing \in Listings(SegmentEntries(dir)) :
              IF Len(ListedFiles(listing)) = 0
                THEN /\ calls' = cs
                     /\ Catch("no files to transcribe")
                     /\ UNCHANGED <<files, chunks, inflight>>
                ELSE /\ StartFanout(ListedFiles(listing), dir, cs)
                     /\ UNCHANGED <<writes, response>>
  /\ UNCHANGED <<ver, job, headers, meta, audioPath, fetched, arrival, failedSeg,
                 transcript, failure, completions>>

\* summary?.title ?? null
OrNull(x) == IF x \in {"undefined", "none"} THEN "null" ELSE x

\* SucceedMain with a statement after the SUCCESS write that throws inside the try
SucceedMainThenThrows(output, summary) ==
  /\ writes' = Append(Append(writes, StatusWrite("SUCCESS", "none", output,
                                                 OrNull(summary.title),
                                                 OrNull(summary.paragraph))),
                      FailedWrite("unknown error"))
  /\ response' = errorResponse("unknown error")
  /\ pc' = "done"

\* the SUCCESS write of 02-main.js and the 200 response; summary is
\* NoCompletions when summarize returned undefined
SucceedMain(output, summary) ==
  /\ writes' = Append(writes, StatusWrite("SUCCESS", "none", output,
                                          OrNull(summary.title), OrNull(summary.paragraph)))
  /\ response' = SuccessResponse
  /\ pc' = "done"

\* the SUCCESS write of lambda-02-process.js and the 200 response
SucceedLegacy(output) ==
  /\ writes' = Append(writes, StatusWrite("SUCCESS", "none", output, "none", "none"))
  /\ response' = SuccessResponse
  /\ pc' = "done"

\* StartSummarize posting the title request only
StartSummarizeTitleOnly(results) ==
  /\ completions' = [title |-> "pending", paragraph |-> "undefined"]
  /\ calls' = [calls EXCEPT !.complete = @ + 1]
  /\ pc' = "summarize"
  /\ UNCHANGED <<writes, response>>

\* summarize up to its await: two callGpt4 requests are posted
\* (textChunks.length === 0 returns undefined before any request)
StartSummarize(results) ==
  IF Len(results) = 0
    THEN /\ SucceedMain(results, NoCompletions)
         /\ UNCHANGED <<completions, calls>>
    ELSE /\ completions' = [title |-> "pending", paragraph |-> "pending"]
         /\ calls' = [calls EXCEPT !.complete = @ + 2]
         /\ pc' = "summarize"
         /\ UNCHANGED <<writes, response>>

\* one transcription request is answered; with the last one Promise.all
\* resolves and the handler goes on to summarize (02-main.js) or to its
\* SUCCESS write (lambda-02-process.js)
TranscribeOk ==
  /\ UNCHANGED <<sumVars, startVars>>
  /\ pc = "fanout"
  /\ \E i \in inflight :
       /\ inflight' = inflight \ {i}
       /\ arrival' = Append(arrival, i)
       /\ IF inflight' = {}
            THEN /\ transcript' = [p \in 1..Len(chunks) |->
                                     TranscribeResult(PromiseAll(chunks, arrival')[p])]
                 /\ IF ver = "main"
                      THEN StartSummarize(transcript')
                      ELSE /\ SucceedLegacy(transcript')
                           /\ UNCHANGED <<completions, calls>>
            ELSE UNCHANGED <<pc, writes, response, transcript, completions, calls>>
  /\ UNCHANGED <<ver, job, headers, meta, tempDir, audioPath, fetched, tool, files,
                 chunks, failedSeg, failure>>

\* TranscribeFail with Promise.allSettled in place of Promise.all: the failed
\* request counts as answered and the handler goes on
TranscribeFailSettled ==
  /\ UNCHANGED <<sumVars, startVars>>
  /\ pc = "fanout"
  /\ \E i \in inflight :
       /\ inflight' = inflight \ {i}
       /\ failedSeg' = i
       /\ failure' = "transcription"
       /\ IF inflight' = {}
            THEN /\ transcript' = [p \in 1..Len(chunks) |-> TranscribeResult(chunks[p])]
                 /\ SucceedLegacy(transcript')
            ELSE UNCHANGED <<pc, writes, response, transcript>>
  /\ UNCHANGED <<ver, job, headers, meta, tempDir, audioPath, fetched, tool, files,
                 chunks, arrival, completions, calls>>

\* one transcription request fails: Promise.all rejects at once with that
\* error, whose message is the one axios made
TranscribeFail ==
  /\ UNCHANGED <<sumVars, startVars>>
  /\ pc = "fanout"
  /\ \E i \in inflight :
       /\ inflight' = inflight \ {i}
       /\ failedSeg' = i
       /\ failure' = "transcription"
       /\ Catch("Request failed")
  /\ UNCHANGED <<ver, job, headers, meta, tempDir, audioPath, fetched, tool, files,
                 chunks, arrival, transcript, completions, calls>>

\* a request left pending by a rejected Promise.all settles; nobody reads it
OrphanSettles ==
  /\ UNCHANGED <<sumVars, startVars>>
  /\ pc = "done"
  /\ inflight # {}
  /\ \E i \in inflight : inflight' = inflight \ {i}
  /\ UNCHANGED <<ver, job, pc, writes, response, headers, meta, tempDir, audioPath,
                 fetched, tool, files, chunks, arrival, failedSeg, transcript,
                 failure, completions, calls>>

\* outcomes of one callGpt4:
\*   text      response.data.choices[0].message.content is a string
\*   undefined the response has no data, no choices or an empty choices list
\*   throw     the request failed, or choices[0] has no message
GptOutcomes == {"text", "undefined", "throw"}

\* summarize without its try/catch: the error reaches the catch of the handler
SummarizeUncaught(output) == Catch("Request failed")

\* the catch block of summarize keeping what the answered request gave
SummarizeCaughtPartial(output) ==
  SucceedMain(output,
              [title |-> IF completions.title = "text" THEN "text" ELSE "undefined",
               paragraph |-> IF completions.paragraph = "text" THEN "text" ELSE "undefined"])

\* the catch block of summarize: it returns undefined, and the handler goes
\* on to its SUCCESS write
SummarizeCaught(output) == SucceedMain(output, NoCompletions)

\* one callGpt4 settles.  A throw rejects the Promise.all of summarize and
\* its catch block runs; when both are fulfilled summarize returns
\* { title, paragraph }.  Then the SUCCESS write.
CompletionSettles ==
  /\ UNCHANGED <<sumVars, startVars>>
  /\ pc = "summarize"
  /\ \E w \in {"title", "paragraph"}, o \in GptOutcomes :
       /\ completions[w] = "pending"
       /\ completions' = [completions EXCEPT ![w] = o]
       /\ CASE o = "throw" -> SummarizeCaught(transcript)
            [] o # "throw" /\ \A x \in {"title", "paragraph"} : completions'[x] # "pending" ->
                 SucceedMain(transcript, completions')
            [] OTHER -> UNCHANGED <<pc, writes, response>>
  /\ UNCHANGED <<ver, job, headers, meta, tempDir, audioPath, fetched, tool, files,
                 chunks, inflight, arrival, failedSeg, transcript, failure, calls>>

Next ==
  \/ Invoke
  \/ ValidateFile
  \/ SaveUrlToLocalFile
  \/ UploadLocalFileToS3
  \/ SplitNotNeeded
  \/ SplitSpawnError
  \/ SplitClose
  \/ TranscribeOk
  \/ TranscribeFail
  \/ OrphanSettles
  \/ CompletionSettles

Spec == Init /\ [][Next]_vars

\* ------------------------------------------------- summarize on its own
\* A text is known by the chunk it comes from and by its length; the result
\* of sliceText by the chunk, the number of its characters taken and whether
\* "..." was put after them.

\* lengths of the transcript texts given to summarize
ChunkLengths == {100, MIN_CHARS_FOR_FIRST_CHUNK, 13000}

Min(a, b) == IF a <= b THEN a ELSE b

\* results.map((r) => r.results.text)
TextChunks(results) == [i \in 1..Len(results) |-> [src |-> i, len |-> results[i]]]

\* sliceText that never truncates
sliceTextWhole(text, numChars) == [src |-> text.src, taken |-> text.len, dots |-> FALSE]

sliceText(text, numChars) ==
  IF text.len <= numChars
    THEN [src |-> text.src, taken |-> text.len, dots |-> FALSE]
    ELSE [src |-> text.src, taken |-> numChars, dots |-> TRUE]

\* .length of a result of sliceText
SlicedLength(piece) == piece.taken + (IF piece.dots THEN EllipsisLength ELSE 0)

\* formatTranscriptForPrompt giving every chunk the uniform share
formatTranscriptUniform(textChunks) ==
  LET n == Min(Len(textChunks), MAX_CHUNKS_TO_USE) IN
    IF n = 0 THEN <<>>
    ELSE [i \in 1..Len(textChunks) |-> sliceText(textChunks[i], MAX_CHARS \div n)]

\* formatTranscriptForPrompt: the pieces it joins with JOIN_STR, in order.
\* With no chunk, n is 0, charsPerChunk is Infinity and the map is empty.
formatTranscriptForPrompt(textChunks) ==
  LET n == Min(Len(textChunks), MAX_CHUNKS_TO_USE) IN
    IF n = 0 THEN <<>>
    ELSE
      LET charsPerChunk == MAX_CHARS \div n IN
        IF charsPerChunk < MIN_CHARS_FOR_FIRST_CHUNK
          THEN LET firstResult == sliceText(Head(textChunks), MIN_CHARS_FOR_FIRST_CHUNK)
                   rest == Tail(textChunks)
                   restSize == (MAX_CHARS - SlicedLength(firstResult)) \div Len(rest)
               IN  <<firstResult>> \o [i \in 1..Len(rest) |-> sliceText(rest[i], restSize)]
          ELSE [i \in 1..Len(textChunks) |-> sliceText(textChunks[i], charsPerChunk)]

\* .length of pieces.join(JOIN_STR)
RECURSIVE SumOfLengths(_)
SumOfLengths(pieces) ==
  IF pieces = <<>> THEN 0 ELSE SlicedLength(Head(pieces)) + SumOfLengths(Tail(pieces))

JoinedLength(pieces) ==
  IF pieces = <<>> THEN 0
  ELSE SumOfLengths(pieces) + JoinStrLength * (Len(pieces) - 1)

\* the length test of summarize left out
NoTextChunksNever(textChunks) == FALSE

\* textChunks.length === 0
NoTextChunks(textChunks) == Len(textChunks) = 0

\* the lists summarize may be given
ResultLists == UNION {[1..k -> ChunkLengths] : k \in 0..MaxChunks}

SumInit ==
  /\ sResults \in ResultLists
  /\ sPc = "call"
  /\ sPrompt = <<>>
  /\ sRequests = 0
  /\ sReturn = NoCompletions
  /\ NoStartInvocation
  /\ ver = "main"
  /\ NoProcessInvocation

\* summarize up to its return or its await
SummarizeCall ==
  /\ sPc = "call"
  /\ IF NoTextChunks(TextChunks(sResults))
       THEN /\ sPc' = "returned"
            /\ UNCHANGED <<sPrompt, sRequests>>
       ELSE /\ sPrompt' = formatTranscriptForPrompt(TextChunks(sResults))
            /\ sRequests' = sRequests + 2
            /\ sPc' = "await"
  /\ UNCHANGED <<sResults, sReturn, processVars, startVars>>

\* the Promise.all of the two callGpt4 settles: { title, paragraph }, or
\* undefined from the catch block when one of them threw
SummarizeSettles ==
  /\ sPc = "await"
  /\ \E t, p \in GptOutcomes :
       sReturn' = IF "throw" \in {t, p} THEN NoCompletions
                  ELSE [title |-> t, paragraph |-> p]
  /\ sPc' = "returned"
  /\ UNCHANGED <<sResults, sPrompt, sRequests, processVars, startVars>>

SumNext == SummarizeCall \/ SummarizeSettles

SummarizeSpec == SumInit /\ [][SumNext]_vars

\* ------------------------------------------------------ the start handler
\* getFileMetadata of lambda-01-start.js: {} when axios.head threw
getFileMetadataStart(h) ==
  IF ~h.ok THEN NoMetadata
  ELSE [contentType |-> h.type, contentLength |-> ToNumber(h.length)]

\* errorResponse(message, details) and makeResponse(200, { status: "success" })
startErrorResponse(message) == [statusCode |-> 500, status |-> "error", error |-> message]

\* events: each parameter is in the query string, in the body or nowhere
\* (a null event has neither); the body is JSON or is not
StartEvents ==
  [dbId : {"none", "query", "body"}, audioUrl : {"none", "query", "body"},
   bodyParses : BOOLEAN]

\* getParams with parseJSON: TRUE for a parameter the handler gets; a body
\* that does not parse gives undefined, which the spread takes as nothing
getParams(event) ==
  [dbId |-> event.dbId = "query" \/ (event.dbId = "body" /\ event.bodyParses),
   audioUrl |-> event.audioUrl = "query" \/ (event.audioUrl = "body" /\ event.bodyParses)]

StartInit ==
  /\ NoStartInvocation
  /\ NoSummarizeCall
  /\ ver = "main"
  /\ NoProcessInvocation

\* The gateway hands the start handler an event; getParams merges the query
\* string and the JSON body (a body that does not parse adds nothing), then
\* the parameter test.
StartInvoke ==
  /\ stPc \in {"idle", "done"}
  /\ stJob < MaxJobs
  /\ stJob' = stJob + 1
  /\ stHeaders' = NoHeaders
  /\ stInvokes' = <<>>
  /\ \E event \in StartEvents :
       /\ stEvent' = event
       /\ IF ~getParams(event).dbId \/ ~getParams(event).audioUrl
            THEN /\ stResponse' = startErrorResponse("missing params")
                 /\ stPc' = "done"
            ELSE /\ stResponse' = NoResponse
                 /\ stPc' = "metadata"
  /\ UNCHANGED <<processVars, sumVars>>

\* getFileMetadata and the admission test, then lambdaClient.send is called
StartValidate ==
  /\ stPc = "metadata"
  /\ \E h \in HeadAnswers :
       /\ stHeaders' = h
       /\ IF InvalidFile(getFileMetadataStart(h))
            THEN /\ stResponse' = startErrorResponse("invalid file")
                 /\ stPc' = "done"
                 /\ UNCHANGED stInvokes
            ELSE /\ stInvokes' = Append(stInvokes, "pending")
                 /\ stPc' = "dispatch"
                 /\ UNCHANGED stResponse
  /\ UNCHANGED <<stJob, stEvent, processVars, sumVars>>

\* lambdaClient.send settles: the 200 response, or the catch block
StartDispatched ==
  /\ stPc = "dispatch"
  /\ \E ok \in BOOLEAN :
       IF ok
         THEN /\ stInvokes' = [stInvokes EXCEPT ![Len(stInvokes)] = "ok"]
              /\ stResponse' = SuccessResponse
         ELSE /\ stInvokes' = [stInvokes EXCEPT ![Len(stInvokes)] = "failed"]
              /\ stResponse' = startErrorResponse("invoke failed")
  /\ stPc' = "done"
  /\ UNCHANGED <<stJob, stEvent, stHeaders, processVars, sumVars>>

StartNext == StartInvoke \/ StartValidate \/ StartDispatched

StartSpec == StartInit /\ [][StartNext]_vars

\* ================================================================ claims

\* the status values of the status writes of the current invocation, in order
Statuses ==
  LET ws == SelectSeq(writes, LAMBDA w : w.status # "none")
  IN  [i \in 1..Len(ws) |-> ws[i].status]

LastWrite == writes[Len(writes)]

HasWrite(status) == \E i \in 1..Len(writes) : writes[i].status = status

\* the invocation got both parameters and the handler has returned
Returned == pc = "done" /\ response.error # "missing params"

\* C1: the status writes of an invocation that got both parameters are
\* RUNNING first, then at most one terminal write (SUCCESS or FAILED) and
\* nothing after it; while the handler runs only RUNNING has been written,
\* and when it has returned exactly one terminal write has been made.
C1_StatusLifecycle ==
  /\ Statuses \in {<<>>, <<"RUNNING">>, <<"RUNNING", "SUCCESS">>, <<"RUNNING", "FAILED">>}
  /\ pc \in {"metadata", "download", "upload", "split", "fanout", "summarize", "hung"}
       => Statuses = <<"RUNNING">>
  /\ Returned => Len(Statuses) = 2
  /\ Statuses = <<>> => pc = "idle" \/ response.error = "missing params"

C1_Witness == Returned /\ Statuses = <<"RUNNING", "SUCCESS">> /\ Len(files) = 2

\* C2: when the transcription of a segment failed, the terminal write is
\* FAILED with a reason, no SUCCESS was written, and no write carries a
\* transcript, a title or a summary.
C2_SegmentFailureFailsJob ==
  failedSeg # 0 =>
    /\ Statuses = <<"RUNNING", "FAILED">>
    /\ LastWrite.status = "FAILED"
    /\ LastWrite.reason # "none"
    /\ \A i \in 1..Len(writes) :
         /\ writes[i].output = <<>>
         /\ writes[i].title = "none"
         /\ writes[i].summary = "none"

C2_Witness == failedSeg = 2 /\ arrival = <<1>> /\ pc = "done"

\* C3: the transcript handed to summarize and written with SUCCESS has one
\* result per segment, position i holding the result of files[i], in every
\* order of completion.
C3_TranscriptInSegmentOrder ==
  /\ (pc = "summarize" \/ HasWrite("SUCCESS")) =>
       /\ Len(transcript) = Len(files)
       /\ \A i \in 1..Len(files) :
            /\ transcript[i].fileName = files[i]
            /\ transcript[i].results = ReadFile(tempDir, files[i])
  /\ \A i \in 1..Len(writes) :
       writes[i].status = "SUCCESS" => writes[i].output = transcript

C3_Witness == HasWrite("SUCCESS") /\ arrival = <<2, 1>>

\* C4: the segment list returned after a split is in ascending order of the
\* ordinals of the segment file names.
C4_SegmentsInOrdinalOrder ==
  tool.status = "closed" =>
    \A i, k \in 1..Len(files) : i < k => files[i].ord < files[k].ord

\* C5: every file an invocation transcribes holds audio of that invocation.
C5_OwnSegmentsOnly ==
  \A i \in 1..Len(chunks) : chunks[i].data.job = job

\* C6: when a collaborator call of an invocation that wrote RUNNING has
\* failed, the handler has written FAILED with a reason and returned the
\* error response.
C6_FailureIsReported ==
  failure # "none" =>
    /\ pc = "done"
    /\ LastWrite.status = "FAILED"
    /\ LastWrite.reason # "none"
    /\ response.statusCode = 500

\* all segments were transcribed and summarize has returned
SummarizeReturned ==
  ver = "main" /\ pc = "done" /\ files # <<>> /\ Len(arrival) = Len(files)

NoUsableText(o) == o \in {"undefined", "throw"}

\* C7 as claimed: after all segments were transcribed the terminal write is
\* SUCCESS with the transcript and never FAILED, and when either completion
\* request failed or gave no text both title and summary are null.
C7_SummaryAllOrNothing ==
  SummarizeReturned =>
    /\ Statuses = <<"RUNNING", "SUCCESS">>
    /\ LastWrite.output = transcript
    /\ (NoUsableText(completions.title) \/ NoUsableText(completions.paragraph))
         => LastWrite.title = "null" /\ LastWrite.summary = "null"

\* C7 amended: after all segments were transcribed the terminal write is
\* SUCCESS with the transcript and never FAILED; when a completion request
\* threw both title and summary are null; a request answered without text
\* has its own field null, and a field is text only if its request gave text.
C7_SummaryNeverFailsJob ==
  SummarizeReturned =>
    /\ Statuses = <<"RUNNING", "SUCCESS">>
    /\ LastWrite.status = "SUCCESS"
    /\ LastWrite.output = transcript
    /\ Len(transcript) = Len(files)
    /\ ("throw" \in {completions.title, completions.paragraph})
         => LastWrite.title = "null" /\ LastWrite.summary = "null"
    /\ NoUsableText(completions.title) => LastWrite.title = "null"
    /\ NoUsableText(completions.paragraph) => LastWrite.summary = "null"
    /\ LastWrite.title \in {"null", "text"}
    /\ LastWrite.summary \in {"null", "text"}
    /\ LastWrite.title = "text" => completions.title = "text"
    /\ LastWrite.summary = "text" => completions.paragraph = "text"

C7_Witness ==
  /\ SummarizeReturned
  /\ completions.paragraph = "text"
  /\ completions.title = "throw"
  /\ LastWrite.status = "SUCCESS"

\* the answer to the HEAD request reports a size that is zero, missing or
\* above MAX_FILE_SIZE, or a media type outside the allow-list
RejectableAsset ==
  /\ headers.ok
  /\ \/ headers.length = Undefined
     \/ headers.length = Num(0)
     \/ headers.length.v > MAX_FILE_SIZE
     \/ headers.type \notin SUPPORTED_FILE_TYPES

\* C8: in the handler of 02-main.js such an asset ends the invocation with
\* FAILED as its terminal write, and no download, upload, segmentation or
\* transcription call is made.
C8_InvalidAssetRejected ==
  (ver = "main" /\ RejectableAsset) =>
    /\ pc = "done"
    /\ Statuses = <<"RUNNING", "FAILED">>
    /\ calls.get = 0
    /\ calls.put = 0
    /\ calls.ffmpeg = 0
    /\ calls.transcribe = 0

C8_Witness ==
  /\ ver = "main"
  /\ headers.ok
  /\ headers.length = Num(0)
  /\ headers.type = "audio/mpeg"
  /\ LastWrite.status = "FAILED"

\* C9: when the segmentation tool closed with a non-zero exit code, or
\* wrote no file, the terminal write is FAILED and no transcription request
\* was made.
C9_ToolFailureFailsJob ==
  (tool.status = "closed" /\ (tool.code # 0 \/ tool.produced = 0)) =>
    /\ pc = "done"
    /\ LastWrite.status = "FAILED"
    /\ calls.transcribe = 0

\* maybeSplitFile has returned in this invocation
SplitReturned == files # <<>>

\* C10: an admitted asset below the threshold never starts the tool and is
\* transcribed as the one downloaded file with one request; an admitted
\* asset not below it is split by the tool.
C10_SplitOnlyAtThreshold ==
  /\ (meta.contentLength.t = "num" /\ meta.contentLength.v < SPLIT_FILE_SIZE_THRESHOLD) =>
       /\ calls.ffmpeg = 0
       /\ tool.status = "none"
       /\ calls.transcribe <= 1
       /\ SplitReturned =>
            /\ files = <<audioPath>>
            /\ chunks[1].data = [job |-> job, part |-> 0, whole |-> TRUE]
            /\ calls.transcribe = 1
  /\ (meta.contentLength.t = "num" /\ meta.contentLength.v >= SPLIT_FILE_SIZE_THRESHOLD
        /\ SplitReturned) =>
       /\ calls.ffmpeg = 1
       /\ tool.status = "closed"

C10_Witness ==
  /\ meta.contentLength = Num(5000000)
  /\ files = <<audioPath>>
  /\ calls.transcribe = 1
  /\ calls.ffmpeg = 0
  /\ pc = "done"

\* C11: the transcription requests in flight never number more than the
\* configured limit.
C11_InflightWithinLimit == Cardinality(inflight) <= ConcurrencyLimit

\* a reason text that names position i of the segment list
SegmentReason(i) == "transcription of segment " \o ToString(i) \o " failed"

\* the position a FAILED reason names, 0 when it names none (the fixed texts
\* of the handlers and the messages of the errors the collaborators throw)
SegmentOfReason(reason) ==
  IF \E i \in 1..Len(files) : reason = SegmentReason(i)
    THEN CHOOSE i \in 1..Len(files) : reason = SegmentReason(i)
    ELSE 0

\* C16: the reason written with FAILED after a failed transcription names
\* the segment whose transcription failed.
C16_ReasonNamesSegment ==
  failedSeg # 0 => SegmentOfReason(LastWrite.reason) = failedSeg

\* summarize has returned: its catch block ran or both requests were answered
SummarizeFinished ==
  \/ "throw" \in {completions.title, completions.paragraph}
  \/ /\ completions.title \in {"text", "undefined"}
     /\ completions.paragraph \in {"text", "undefined"}

\* C17: a job posts no completion request or exactly two; none is posted
\* before every transcription request was answered with success; SUCCESS is
\* written only after the fan-out and summarize have finished.
C17_SummarizeAfterFanout ==
  /\ calls.complete \in {0, 2}
  /\ calls.complete > 0 =>
       /\ inflight = {}
       /\ failedSeg = 0
       /\ files # <<>>
       /\ Len(arrival) = Len(files)
       /\ Len(transcript) = Len(files)
  /\ HasWrite("SUCCESS") =>
       /\ Len(arrival) = Len(files)
       /\ inflight = {}
       /\ ver = "main" => calls.complete = 2 /\ SummarizeFinished
  /\ ver = "legacy" => calls.complete = 0

C17_Witness ==
  /\ ver = "main"
  /\ HasWrite("SUCCESS")
  /\ calls.complete = 2
  /\ arrival = <<2, 1>>
  /\ completions = [title |-> "text", paragraph |-> "text"]

\* formatTranscriptForPrompt was called on a list that is not empty
Formatted == sPc \in {"await", "returned"} /\ sResults # <<>>

\* n of formatTranscriptForPrompt
UsedChunks == Min(Len(sResults), MAX_CHUNKS_TO_USE)

\* C12 as claimed: the prompt is at most MAX_CHARS plus one "..." per used
\* chunk long.
C12_LengthWithinMarkerOverhead ==
  Formatted => JoinedLength(sPrompt) <= MAX_CHARS + UsedChunks * EllipsisLength

\* C12 amended: the prompt is at most MAX_CHARS plus one "..." per chunk and
\* one JOIN_STR between two chunks long, over all chunks of the list.
C12_LengthWithinJoinOverhead ==
  Formatted =>
    JoinedLength(sPrompt) <= MAX_CHARS + Len(sResults) * EllipsisLength
                               + (Len(sResults) - 1) * JoinStrLength

C12_Witness ==
  /\ Formatted
  /\ Len(sResults) = 3
  /\ JoinedLength(sPrompt) = MAX_CHARS + 3 * EllipsisLength + 2 * JoinStrLength

\* C13: the prompt is made of n = min(number of chunks, MAX_CHUNKS_TO_USE)
\* excerpts, none of them from a chunk after the first MAX_CHUNKS_TO_USE.
C13_OnlyFirstChunksUsed ==
  Formatted =>
    /\ Len(sPrompt) = UsedChunks
    /\ \A i \in 1..Len(sPrompt) : sPrompt[i].src <= MAX_CHUNKS_TO_USE

\* C14: when the uniform share is below MIN_CHARS_FOR_FIRST_CHUNK, every used
\* chunk after the first is cut at the budget left by the first chunk's text
\* divided by n - 1 (1600 for 8 chunks and a first chunk of 4000 or more).
C14_RestSharesRemainingBudget ==
  (Formatted /\ MAX_CHARS \div UsedChunks < MIN_CHARS_FOR_FIRST_CHUNK) =>
    \A i \in 2..Min(UsedChunks, Len(sPrompt)) :
      sPrompt[i].taken =
        Min(sResults[i],
            (MAX_CHARS - Min(sResults[1], MIN_CHARS_FOR_FIRST_CHUNK)) \div (UsedChunks - 1))

\* C15: with n > MAX_CHARS / MIN_CHARS_FOR_FIRST_CHUNK the first chunk is cut
\* at MIN_CHARS_FOR_FIRST_CHUNK characters, not at the uniform share; with
\* fewer chunks every chunk is cut at the uniform share floor(MAX_CHARS / n).
\* A text no longer than its cut is taken whole.
C15_FirstChunkBudget ==
  Formatted =>
    IF UsedChunks * MIN_CHARS_FOR_FIRST_CHUNK > MAX_CHARS
      THEN /\ sPrompt[1].src = 1
           /\ sPrompt[1].taken = Min(sResults[1], MIN_CHARS_FOR_FIRST_CHUNK)
           /\ sPrompt[1].dots = (sResults[1] > MIN_CHARS_FOR_FIRST_CHUNK)
           /\ sResults[1] > MIN_CHARS_FOR_FIRST_CHUNK =>
                /\ sPrompt[1].taken = MIN_CHARS_FOR_FIRST_CHUNK
                /\ sPrompt[1].taken # MAX_CHARS \div UsedChunks
      ELSE /\ Len(sPrompt) = Len(sResults)
           /\ \A i \in 1..Len(sResults) :
                /\ sPrompt[i].src = i
                /\ sPrompt[i].taken = Min(sResults[i], MAX_CHARS \div UsedChunks)
                /\ sPrompt[i].dots = (sResults[i] > MAX_CHARS \div UsedChunks)

C15_Witness ==
  /\ Formatted
  /\ Len(sResults) = 4
  /\ sResults[1] = 13000
  /\ sPrompt[1].taken = MIN_CHARS_FOR_FIRST_CHUNK
  /\ sPrompt[1].dots

\* C18: summarize called on an empty list returns undefined and posts no
\* callGpt4 request.
C18_EmptyListNoRequest ==
  (sPc \in {"await", "returned"} /\ sResults = <<>>) =>
    /\ sPc = "returned"
    /\ sRequests = 0
    /\ sReturn = NoCompletions
    /\ sPrompt = <<>>

C18_Witness == sPc = "returned" /\ sResults = <<>> /\ sRequests = 0

\* C19 as claimed: every SUCCESS write of 02-main.js has title and summary
\* both null or both text.
C19_TitleAndSummaryTogether ==
  \A i \in 1..Len(writes) :
    (ver = "main" /\ writes[i].status = "SUCCESS") =>
      (writes[i].title = "null") = (writes[i].summary = "null")

\* C19 amended: in a SUCCESS write of 02-main.js both are null when a
\* completion request threw; otherwise each is text exactly when its own
\* request gave text, so one is written alone only when exactly one request
\* was answered without text.
C19_FieldsFollowTheirRequests ==
  \A i \in 1..Len(writes) :
    (ver = "main" /\ writes[i].status = "SUCCESS") =>
      IF "throw" \in {completions.title, completions.paragraph}
        THEN writes[i].title = "null" /\ writes[i].summary = "null"
        ELSE /\ (writes[i].title = "text") = (completions.title = "text")
             /\ (writes[i].summary = "text") = (completions.paragraph = "text")
             /\ (writes[i].title = "null") = (completions.title = "undefined")
             /\ (writes[i].summary = "null") = (completions.paragraph = "undefined")

C19_Witness ==
  /\ ver = "main"
  /\ HasWrite("SUCCESS")
  /\ completions = [title |-> "undefined", paragraph |-> "text"]
  /\ LastWrite.title = "null"
  /\ LastWrite.summary = "text"

\* the event has both parameters and the HEAD request reported a media type
\* of the allow-list and a size that is a number of at most MAX_FILE_SIZE
StartAdmissible ==
  /\ getParams(stEvent).dbId
  /\ getParams(stEvent).audioUrl
  /\ stHeaders.ok
  /\ stHeaders.type \in SUPPORTED_FILE_TYPES
  /\ stHeaders.length.t = "num"
  /\ stHeaders.length.v <= MAX_FILE_SIZE

\* C20: the start handler sends the InvokeCommand only for an admissible
\* event; every other invocation ends with a 500 response and no dispatch;
\* the 200 response is returned only after the send returned without error.
C20_DispatchOnlyAdmissible ==
  /\ stInvokes # <<>> => StartAdmissible
  /\ (stPc = "done" /\ ~StartAdmissible) =>
       stResponse.statusCode = 500 /\ stInvokes = <<>>
  /\ stResponse.statusCode = 200 => stInvokes = <<"ok">>

====
